---- MODULE Spec2Model ----
(***************************************************************************)
(* Model of awsmfunc/types/placebo.py: the option enumerations and the     *)
(* immutable options bundle PlaceboTonemapOpts with its constructor,       *)
(* with_static_peak_detect, vsplacebo_dict and the colour space            *)
(* predicates.                                                             *)
(*                                                                         *)
(* Python values are records [t, n, d, s]: t is the Python type's name,    *)
(* n/d the exact rational value of a number (d = 1 for bool, int and       *)
(* IntEnum members), s the text of a str.  None is the only value of type  *)
(* NoneType.  Objects live in `heap`; a reference is an index into it.     *)
(***************************************************************************)
EXTENDS Integers, Sequences, FiniteSets, TLC

\* ---------------------------------------------------------------- bounds
\* At most MaxArgs keyword arguments are supplied to one constructor call.
MaxArgs == 2
\* At most MaxHeap bundles are alive in one behaviour.
MaxHeap == 3

\* ---------------------------------------------------------- Python values
PyNone == [t |-> "NoneType", n |-> 0, d |-> 1, s |-> ""]
PyBool(x) == [t |-> "bool", n |-> IF x THEN 1 ELSE 0, d |-> 1, s |-> ""]
PyInt(i) == [t |-> "int", n |-> i, d |-> 1, s |-> ""]
PyStr(x) == [t |-> "str", n |-> 0, d |-> 1, s |-> x]

RECURSIVE GCD(_, _)
GCD(a, b) == IF b = 0 THEN a ELSE GCD(b, a % b)

\* The float whose exact value is num/den (den > 0), in lowest terms.
PyFloat(num, den) ==
    LET g == GCD(IF num < 0 THEN -num ELSE num, den)
    IN  [t |-> "float", n |-> num \div g, d |-> den \div g, s |-> ""]

IntEnumTypes == {"PlaceboColorSpace", "PlaceboTonemapFunction",
                 "PlaceboGamutMapping", "PlaceboHdrMetadataType"}
IsNumber(v) == v.t \in {"bool", "int", "float"} \cup IntEnumTypes
IsStr(v) == v.t \in {"str", "PlaceboTonemapFunctionName"}

\* Python's `a == b`: numbers (bool, int, float, IntEnum members) compare by
\* value, strings (str, str-mixin Enum members) by text, None only equals None.
PyEq(a, b) ==
    IF IsNumber(a) /\ IsNumber(b) THEN a.n * b.d = b.n * a.d
    ELSE IF IsStr(a) /\ IsStr(b) THEN a.s = b.s
    ELSE a = b

\* Variant: floor division `a // b` in place of true division.
FloorDiv(a, b) == PyFloat((a.n * b.d) \div (a.d * b.n), 1)

\* Python's true division `a / b` of two numbers (b # 0): a float.
TrueDiv(a, b) ==
    IF b.n > 0 THEN PyFloat(a.n * b.d, a.d * b.n)
               ELSE PyFloat(-(a.n * b.d), -(a.d * b.n))

\* ---------------------------------------------------------- enumerations
PlaceboColorSpace == [SDR |-> 0, HDR10 |-> 1, HLG |-> 2, DOVI |-> 3]

PlaceboTonemapFunction ==
    [Auto |-> 0, Clip |-> 1, ST2094_40 |-> 2, ST2094_10 |-> 3, BT2390 |-> 4,
     BT2446a |-> 5, Spline |-> 6, Reinhard |-> 7, Mobius |-> 8, Hable |-> 9,
     Gamma |-> 10, Linear |-> 11]

PlaceboTonemapFunctionName ==
    [Auto |-> "auto", Clip |-> "clip", ST2094_40 |-> "st2094-40",
     ST2094_10 |-> "st2094-10", BT2390 |-> "bt2390", BT2446a |-> "bt2446a",
     Spline |-> "spline", Reinhard |-> "reinhard", Mobius |-> "mobius",
     Hable |-> "hable", Gamma |-> "gamma", Linear |-> "linear"]

PlaceboGamutMapping ==
    [Clip |-> 0, Perceptual |-> 1, Softclip |-> 2, Relative |-> 3,
     Saturation |-> 4, Absolute |-> 5, Desaturate |-> 6, Darken |-> 7,
     Highlight |-> 8, Linear |-> 9]

PlaceboHdrMetadataType ==
    [Any |-> 0, PlNone |-> 1, HDR10 |-> 2, HDR10Plus |-> 3, CIE_Y |-> 4]

\* The member of IntEnum class `cls` whose value is i.
IntEnumValue(cls, i) == [t |-> cls, n |-> i, d |-> 1, s |-> ""]
\* The member of the str-mixin Enum class `cls` whose value is x.
StrEnumValue(cls, x) == [t |-> cls, n |-> 0, d |-> 1, s |-> x]

ColorSpace(k) == IntEnumValue("PlaceboColorSpace", PlaceboColorSpace[k])
TonemapFunction(k) ==
    IntEnumValue("PlaceboTonemapFunction", PlaceboTonemapFunction[k])
TonemapFunctionName(k) ==
    StrEnumValue("PlaceboTonemapFunctionName", PlaceboTonemapFunctionName[k])
GamutMapping(k) == IntEnumValue("PlaceboGamutMapping", PlaceboGamutMapping[k])
HdrMetadataType(k) ==
    IntEnumValue("PlaceboHdrMetadataType", PlaceboHdrMetadataType[k])

ColorSpaceMembers == {ColorSpace(k) : k \in DOMAIN PlaceboColorSpace}
TonemapFunctionMembers ==
    {TonemapFunction(k) : k \in DOMAIN PlaceboTonemapFunction}
TonemapFunctionNameMembers ==
    {TonemapFunctionName(k) : k \in DOMAIN PlaceboTonemapFunctionName}
GamutMappingMembers == {GamutMapping(k) : k \in DOMAIN PlaceboGamutMapping}
HdrMetadataTypeMembers ==
    {HdrMetadataType(k) : k \in DOMAIN PlaceboHdrMetadataType}

\* ------------------------------------------------- PlaceboTonemapOpts
\* The fields of the NamedTuple, in declaration order.
_fields ==
    <<"source_colorspace", "target_colorspace", "target_primaries",
      "dst_max", "dst_min", "peak_detect", "gamut_mapping",
      "tone_map_function", "tone_map_function_s", "tone_map_param",
      "contrast_recovery", "hdr_metadata_type", "use_dovi",
      "smoothing_period", "scene_threshold_low", "scene_threshold_high",
      "percentile", "show_clipping", "visualize_lut", "use_planestats">>

Fields == {_fields[i] : i \in 1..Len(_fields)}

\* The class-body name dst_max at the time the next default is evaluated.
dst_max_default == PyFloat(203, 1)

\* The defaults, each evaluated once, when the class body runs.
_field_defaults ==
    [source_colorspace    |-> ColorSpace("HDR10"),
     target_colorspace    |-> ColorSpace("SDR"),
     target_primaries     |-> PyNone,
     dst_max              |-> dst_max_default,
     dst_min              |-> TrueDiv(dst_max_default, PyInt(1000)),
     peak_detect          |-> PyBool(TRUE),
     gamut_mapping        |-> PyNone,
     tone_map_function    |-> PyNone,
     tone_map_function_s  |-> PyNone,
     tone_map_param       |-> PyNone,
     contrast_recovery    |-> PyNone,
     hdr_metadata_type    |-> PyNone,
     use_dovi             |-> PyNone,
     smoothing_period     |-> PyNone,
     scene_threshold_low  |-> PyNone,
     scene_threshold_high |-> PyNone,
     percentile           |-> PyNone,
     show_clipping        |-> PyNone,
     visualize_lut        |-> PyNone,
     use_planestats       |-> PyBool(TRUE)]

\* Variant: a strict constructor that rejects values outside the field's
\* enumeration.
__new__validating(kw) ==
    LET enums == [source_colorspace   |-> ColorSpaceMembers,
                  target_colorspace   |-> ColorSpaceMembers,
                  gamut_mapping       |-> GamutMappingMembers,
                  tone_map_function   |-> TonemapFunctionMembers,
                  tone_map_function_s |-> TonemapFunctionNameMembers,
                  hdr_metadata_type   |-> HdrMetadataTypeMembers]
        ok == /\ DOMAIN kw \subseteq Fields
              /\ \A f \in DOMAIN kw \cap DOMAIN enums :
                    kw[f] \in enums[f] \cup {PyNone}
    IN  IF ok
        THEN [err |-> FALSE,
              obj |-> [f \in Fields |->
                         IF f \in DOMAIN kw THEN kw[f] ELSE _field_defaults[f]]]
        ELSE [err |-> TRUE, obj |-> _field_defaults]

\* Variant: a constructor that reconciles the two tone map function fields,
\* keeping only the numeric one when both are supplied.
__new__reconciling(kw) ==
    IF DOMAIN kw \subseteq Fields
    THEN [err |-> FALSE,
          obj |-> [f \in Fields |->
                     IF f = "tone_map_function_s"
                        /\ {"tone_map_function", "tone_map_function_s"}
                              \subseteq DOMAIN kw
                     THEN PyNone
                     ELSE IF f \in DOMAIN kw THEN kw[f]
                     ELSE _field_defaults[f]]]
    ELSE [err |-> TRUE, obj |-> _field_defaults]

\* PlaceboTonemapOpts(**kw): a keyword that names no field raises TypeError;
\* otherwise every field takes the supplied value as it is, or its default.
\* Nothing is validated or converted.
__new__(kw) ==
    IF DOMAIN kw \subseteq Fields
    THEN [err |-> FALSE,
          obj |-> [f \in Fields |->
                     IF f \in DOMAIN kw THEN kw[f] ELSE _field_defaults[f]]]
    ELSE [err |-> TRUE, obj |-> _field_defaults]

\* self._replace(**kw): a new tuple, the fields named in kw replaced.
_replace(self, kw) ==
    [f \in Fields |-> IF f \in DOMAIN kw THEN kw[f] ELSE self[f]]

\* Variant: scene_threshold_high is left as it was.
with_static_peak_detect_low_only(self) ==
    _replace(self, [smoothing_period    |-> PyInt(0),
                    scene_threshold_low |-> PyInt(0)])

with_static_peak_detect(self) ==
    _replace(self, [smoothing_period     |-> PyInt(0),
                    scene_threshold_low  |-> PyInt(0),
                    scene_threshold_high |-> PyInt(0)])

\* Variant: the items listed in the order the fields are declared in.
all_args_field_order(self) ==
    << <<"src_csp", self.source_colorspace>>,
       <<"dst_csp", self.target_colorspace>>,
       <<"dst_prim", self.target_primaries>>,
       <<"dst_max", self.dst_max>>,
       <<"dst_min", self.dst_min>>,
       <<"dynamic_peak_detection", self.peak_detect>>,
       <<"gamut_mapping", self.gamut_mapping>>,
       <<"tone_mapping_function", self.tone_map_function>>,
       <<"tone_mapping_function_s", self.tone_map_function_s>>,
       <<"tone_mapping_param", self.tone_map_param>>,
       <<"contrast_recovery", self.contrast_recovery>>,
       <<"metadata", self.hdr_metadata_type>>,
       <<"use_dovi", self.use_dovi>>,
       <<"smoothing_period", self.smoothing_period>>,
       <<"scene_threshold_low", self.scene_threshold_low>>,
       <<"scene_threshold_high", self.scene_threshold_high>>,
       <<"percentile", self.percentile>>,
       <<"show_clipping", self.show_clipping>>,
       <<"visualize_lut", self.visualize_lut>> >>

\* The dict literal of vsplacebo_dict, as the sequence of its items in
\* insertion order (the keys are pairwise distinct).
all_args(self) ==
    << <<"src_csp", self.source_colorspace>>,
       <<"dst_csp", self.target_colorspace>>,
       <<"dst_prim", self.target_primaries>>,
       <<"dst_max", self.dst_max>>,
       <<"dst_min", self.dst_min>>,
       <<"dynamic_peak_detection", self.peak_detect>>,
       <<"gamut_mapping", self.gamut_mapping>>,
       <<"tone_mapping_function", self.tone_map_function>>,
       <<"tone_mapping_function_s", self.tone_map_function_s>>,
       <<"tone_mapping_param", self.tone_map_param>>,
       <<"use_dovi", self.use_dovi>>,
       <<"smoothing_period", self.smoothing_period>>,
       <<"scene_threshold_low", self.scene_threshold_low>>,
       <<"scene_threshold_high", self.scene_threshold_high>>,
       <<"show_clipping", self.show_clipping>>,
       <<"percentile", self.percentile>>,
       <<"metadata", self.hdr_metadata_type>>,
       <<"visualize_lut", self.visualize_lut>>,
       <<"contrast_recovery", self.contrast_recovery>> >>

\* Variant: `if v` (truthiness) in place of `if v is not None`.
IsTruthy(kv) == IF IsNumber(kv[2]) THEN kv[2].n # 0 ELSE kv[2].s # ""

\* {k: v for k, v in all_args.items() if v is not None}
IsNotNone(kv) == kv[2] # PyNone
\* Variant: use_planestats is passed on to the filter as well.
vsplacebo_dict_with_planestats(self) ==
    Append(SelectSeq(all_args(self), IsNotNone),
           <<"use_planestats", self.use_planestats>>)

vsplacebo_dict(self) == SelectSeq(all_args(self), IsNotNone)

is_dovi_src(self) == PyEq(self.source_colorspace, ColorSpace("DOVI"))
is_hdr10_src(self) == PyEq(self.source_colorspace, ColorSpace("HDR10"))
\* Variant: the source colour space is read in place of the target's.
is_sdr_target_of_source(self) ==
    PyEq(self.source_colorspace, ColorSpace("SDR"))

is_sdr_target(self) == PyEq(self.target_colorspace, ColorSpace("SDR"))

\* ------------------------------------------------------------- the state
VARIABLES
    heap,   \* the bundles alive, in order of creation; a reference is an index
    op,     \* the name of the last call made
    self,   \* the receiver of the last call (0: the call had none)
    args,   \* the keyword arguments of the last call
    ret     \* what the last call returned or raised

vars == <<heap, op, self, args, ret>>

EmptyKw == [f \in {} |-> PyNone]

NoRet == [kind |-> "none", ref |-> 0, dict |-> <<>>, bool |-> FALSE]
RetRef(i) == [NoRet EXCEPT !.kind = "ref", !.ref = i]
RetDict(m) == [NoRet EXCEPT !.kind = "dict", !.dict = m]
RetBool(x) == [NoRet EXCEPT !.kind = "bool", !.bool = x]
RetTypeError == [NoRet EXCEPT !.kind = "TypeError"]

\* ------------------------------------------------------------- the inputs
\* A keyword that is not a field of the bundle.
UnknownKeyword == "tonemap_function"

\* The values a caller supplies for each keyword: members of the field's
\* enumeration, values outside it, zero/false values and inconsistent ones.
ArgValues ==
    [source_colorspace    |-> ColorSpaceMembers \cup {PyInt(7)},
     target_colorspace    |-> ColorSpaceMembers,
     target_primaries     |-> {PyInt(1)},
     dst_max              |-> {PyFloat(100, 1), PyFloat(1000, 1)},
     dst_min              |-> {PyFloat(0, 1), PyFloat(500, 1)},
     peak_detect          |-> {PyBool(FALSE)},
     gamut_mapping        |-> {GamutMapping("Clip"), PyInt(42)},
     tone_map_function    |-> {TonemapFunction("Auto"), PyInt(42)},
     tone_map_function_s  |-> {TonemapFunctionName("Auto"),
                               TonemapFunctionName("Hable"), PyStr("bogus")},
     tone_map_param       |-> {PyFloat(0, 1)},
     contrast_recovery    |-> {PyFloat(3, 10)},
     hdr_metadata_type    |-> {HdrMetadataType("Any"), PyInt(42)},
     use_dovi             |-> {PyBool(TRUE), PyBool(FALSE)},
     smoothing_period     |-> {PyFloat(20, 1)},
     scene_threshold_low  |-> {PyFloat(1, 1), PyNone},
     scene_threshold_high |-> {PyFloat(3, 1)},
     percentile           |-> {PyFloat(99995, 1000)},
     show_clipping        |-> {PyBool(FALSE)},
     visualize_lut        |-> {PyBool(TRUE)},
     use_planestats       |-> {PyBool(FALSE)},
     tonemap_function     |-> {TonemapFunction("Hable")}]

ArgNames == _fields \o <<UnknownKeyword>>

\* The keyword-argument sets that supply at most m of ArgNames[i..].
RECURSIVE KwargsFrom(_, _)
KwargsFrom(i, m) ==
    IF i > Len(ArgNames) \/ m = 0 THEN {EmptyKw}
    ELSE KwargsFrom(i + 1, m)
         \cup {(ArgNames[i] :> v) @@ kw :
                 kw \in KwargsFrom(i + 1, m - 1), v \in ArgValues[ArgNames[i]]}

Kwargs == KwargsFrom(1, MaxArgs)

\* ------------------------------------------------------------ the calls
\* Variant: the receiver is overwritten in place.
call_with_static_peak_detect_in_place(h, i) ==
    [h EXCEPT ![i] = with_static_peak_detect(h[i])]

\* What a call of with_static_peak_detect on heap[i] does to the heap: the
\* derived tuple is a new object, the receiver stays as it is.
call_with_static_peak_detect(h, i) == Append(h, with_static_peak_detect(h[i]))

Init ==
    /\ heap = <<>>
    /\ op = "init"
    /\ self = 0
    /\ args = EmptyKw
    /\ ret = NoRet

\* opts = PlaceboTonemapOpts(**kw): one configuration is constructed per
\* behaviour and every other bundle derives from it; a TypeError is not
\* caught and ends the behaviour.
Construct ==
    /\ heap = <<>>
    /\ ret.kind # "TypeError"
    /\ \E kw \in Kwargs :
        LET r == __new__(kw) IN
        /\ heap' = IF r.err THEN heap ELSE Append(heap, r.obj)
        /\ ret' = IF r.err THEN RetTypeError ELSE RetRef(Len(heap) + 1)
        /\ args' = kw
    /\ op' = "PlaceboTonemapOpts"
    /\ self' = 0

WithStaticPeakDetect ==
    /\ Len(heap) < MaxHeap
    /\ \E i \in 1..Len(heap) :
        /\ heap' = call_with_static_peak_detect(heap, i)
        /\ self' = i
    /\ ret' = RetRef(Len(heap'))
    /\ op' = "with_static_peak_detect"
    /\ args' = EmptyKw

VsplaceboDict ==
    /\ \E i \in 1..Len(heap) :
        /\ ret' = RetDict(vsplacebo_dict(heap[i]))
        /\ self' = i
    /\ op' = "vsplacebo_dict"
    /\ args' = EmptyKw
    /\ UNCHANGED heap

IsDoviSrc ==
    /\ \E i \in 1..Len(heap) :
        /\ ret' = RetBool(is_dovi_src(heap[i]))
        /\ self' = i
    /\ op' = "is_dovi_src"
    /\ args' = EmptyKw
    /\ UNCHANGED heap

IsHdr10Src ==
    /\ \E i \in 1..Len(heap) :
        /\ ret' = RetBool(is_hdr10_src(heap[i]))
        /\ self' = i
    /\ op' = "is_hdr10_src"
    /\ args' = EmptyKw
    /\ UNCHANGED heap

IsSdrTarget ==
    /\ \E i \in 1..Len(heap) :
        /\ ret' = RetBool(is_sdr_target(heap[i]))
        /\ self' = i
    /\ op' = "is_sdr_target"
    /\ args' = EmptyKw
    /\ UNCHANGED heap

Next ==
    \/ Construct
    \/ WithStaticPeakDetect
    \/ VsplaceboDict
    \/ IsDoviSrc
    \/ IsHdr10Src
    \/ IsSdrTarget

Spec == Init /\ [][Next]_vars

\* ---------------------------------------------------------------------
\* The documented interface, as the properties below state it.
\* ---------------------------------------------------------------------
\* The external key documented for each field that has one.
DocumentedKey ==
    [source_colorspace    |-> "src_csp",
     target_colorspace    |-> "dst_csp",
     target_primaries     |-> "dst_prim",
     dst_max              |-> "dst_max",
     dst_min              |-> "dst_min",
     peak_detect          |-> "dynamic_peak_detection",
     gamut_mapping        |-> "gamut_mapping",
     tone_map_function    |-> "tone_mapping_function",
     tone_map_function_s  |-> "tone_mapping_function_s",
     tone_map_param       |-> "tone_mapping_param",
     use_dovi             |-> "use_dovi",
     smoothing_period     |-> "smoothing_period",
     scene_threshold_low  |-> "scene_threshold_low",
     scene_threshold_high |-> "scene_threshold_high",
     show_clipping        |-> "show_clipping",
     percentile           |-> "percentile",
     hdr_metadata_type    |-> "metadata",
     visualize_lut        |-> "visualize_lut",
     contrast_recovery    |-> "contrast_recovery"]

\* The fixed key list, in its documented order.
DocumentedKeyOrder ==
    <<"src_csp", "dst_csp", "dst_prim", "dst_max", "dst_min",
      "dynamic_peak_detection", "gamut_mapping", "tone_mapping_function",
      "tone_mapping_function_s", "tone_mapping_param", "use_dovi",
      "smoothing_period", "scene_threshold_low", "scene_threshold_high",
      "show_clipping", "percentile", "metadata", "visualize_lut",
      "contrast_recovery">>

DocumentedKeys == {DocumentedKeyOrder[p] : p \in 1..Len(DocumentedKeyOrder)}

\* The enumeration of each enum-valued field.
EnumOf ==
    [source_colorspace   |-> ColorSpaceMembers,
     target_colorspace   |-> ColorSpaceMembers,
     gamut_mapping       |-> GamutMappingMembers,
     tone_map_function   |-> TonemapFunctionMembers,
     tone_map_function_s |-> TonemapFunctionNameMembers,
     hdr_metadata_type   |-> HdrMetadataTypeMembers]

EnumFields == DOMAIN EnumOf

\* A mapping as a sequence of <<key, value>> items.
Keys(m) == {m[i][1] : i \in 1..Len(m)}
Has(m, k) == \E i \in 1..Len(m) : m[i][1] = k
Get(m, k) == m[CHOOSE i \in 1..Len(m) : m[i][1] = k][2]
Position(k) ==
    CHOOSE p \in 1..Len(DocumentedKeyOrder) : DocumentedKeyOrder[p] = k

StaticFields ==
    {"smoothing_period", "scene_threshold_low", "scene_threshold_high"}

Zero == PyInt(0)

\* The last call constructed a bundle / returned one.
Constructed == op = "PlaceboTonemapOpts" /\ ret.kind = "ref"
Derived == op = "with_static_peak_detect" /\ ret.kind = "ref"
Dumped == op = "vsplacebo_dict" /\ ret.kind = "dict"

\* ---------------------------------------------------------------------
\* C1: the mapping vsplacebo_dict returns has an entry under a documented
\* key exactly when the corresponding field is not None, the entry's value
\* is the field's value as it is, and there is no other entry (so none for
\* use_planestats, whatever its value).
C1_DictHoldsExactlySetFields ==
    Dumped =>
        LET b == heap[self]
            m == ret.dict
        IN  /\ \A f \in DOMAIN DocumentedKey :
                 /\ Has(m, DocumentedKey[f]) <=> b[f] # PyNone
                 /\ Has(m, DocumentedKey[f]) => Get(m, DocumentedKey[f]) = b[f]
            /\ Keys(m) \subseteq DocumentedKeys
            /\ Len(m) = Cardinality({f \in DOMAIN DocumentedKey : b[f] # PyNone})
            /\ "use_planestats" \notin DOMAIN DocumentedKey
            /\ ~Has(m, "use_planestats")

\* C1 witness: a dump of a bundle with use_planestats = False, an optional
\* field set (gamut_mapping) and optional fields unset.
C1_Witness ==
    /\ Dumped
    /\ heap[self].use_planestats = PyBool(FALSE)
    /\ heap[self].gamut_mapping = GamutMapping("Clip")
    /\ heap[self].use_dovi = PyNone
    /\ Has(ret.dict, "gamut_mapping")
    /\ ~Has(ret.dict, "use_dovi")

\* The mapping documented for a default-constructed bundle.
DefaultMapping ==
    << <<"src_csp", ColorSpace("HDR10")>>,
       <<"dst_csp", ColorSpace("SDR")>>,
       <<"dst_max", PyFloat(203, 1)>>,
       <<"dst_min", PyFloat(203, 1000)>>,
       <<"dynamic_peak_detection", PyBool(TRUE)>> >>

\* The documented defaults: HDR10 to SDR, peak 203.0 nits, black point
\* peak/1000, peak detection and plane statistics on, the rest unset.
DocumentedDefaults ==
    [f \in Fields |->
        CASE f = "source_colorspace" -> ColorSpace("HDR10")
          [] f = "target_colorspace" -> ColorSpace("SDR")
          [] f = "dst_max" -> PyFloat(203, 1)
          [] f = "dst_min" -> PyFloat(203, 1000)
          [] f = "peak_detect" -> PyBool(TRUE)
          [] f = "use_planestats" -> PyBool(TRUE)
          [] OTHER -> PyNone]

\* C2: vsplacebo_dict of a bundle constructed with no argument is exactly
\* {src_csp: HDR10, dst_csp: SDR, dst_max: 203.0, dst_min: 0.203,
\* dynamic_peak_detection: True}.
C2_DefaultBundleMapping ==
    /\ (op = "PlaceboTonemapOpts" /\ args = EmptyKw) =>
          /\ ret.kind = "ref"
          /\ heap[ret.ref] = DocumentedDefaults
          /\ vsplacebo_dict(heap[ret.ref]) = DefaultMapping
    /\ (Dumped /\ heap[self] = DocumentedDefaults) => ret.dict = DefaultMapping

\* C2 witness: the default bundle was constructed and dumped.
C2_Witness ==
    /\ Dumped
    /\ self = 1
    /\ heap[1] = DocumentedDefaults
    /\ Len(ret.dict) = 5
    /\ ret.dict = DefaultMapping

\* C3 (as claimed): a bundle constructed without dst_min has
\* dst_min = dst_max / 1000 of its own dst_max, whatever dst_max was supplied.
C3_DefaultDstMinFollowsDstMax ==
    (Constructed /\ "dst_min" \notin DOMAIN args) =>
        heap[ret.ref].dst_min = TrueDiv(heap[ret.ref].dst_max, PyInt(1000))

\* C4: with_static_peak_detect returns a bundle whose smoothing_period,
\* scene_threshold_low and scene_threshold_high are 0 and whose other
\* fields are the receiver's; applied to a bundle it returned, it returns
\* an equal bundle.
C4_StaticVariant ==
    Derived =>
        LET b == heap[self]
            r == heap[ret.ref]
        IN  /\ \A f \in StaticFields : r[f] = Zero
            /\ \A f \in Fields \ StaticFields : r[f] = b[f]
            /\ (\A f \in StaticFields : b[f] = Zero) => r = b
            /\ with_static_peak_detect(r) = r

\* C4 witness: the variant of a variant was derived, a new object equal to
\* its receiver.
C4_Witness ==
    /\ Derived
    /\ self = 2
    /\ ret.ref = 3
    /\ heap[1].smoothing_period # Zero
    /\ heap[3] = heap[2]
    /\ heap[2].use_planestats = PyBool(FALSE)

\* C5: no call changes a bundle that exists: every object of the heap keeps
\* all its fields in every step, and with_static_peak_detect only adds a
\* new object, which it returns.
C5_NeverMutated ==
    [][/\ Len(heap') >= Len(heap)
       /\ \A i \in 1..Len(heap) : heap'[i] = heap[i]
       /\ op' = "with_static_peak_detect" =>
             /\ Len(heap') = Len(heap) + 1
             /\ ret'.ref = Len(heap')]_vars

\* C5 witness: after derivations and reads on the derived bundles the
\* original still differs from its variants.
C5_Witness ==
    /\ Len(heap) = 3
    /\ op = "vsplacebo_dict"
    /\ self = 3
    /\ heap[1].smoothing_period = PyFloat(20, 1)
    /\ heap[3].smoothing_period = Zero

\* C6: over the four colour spaces as source and as target, is_dovi_src is
\* true iff the source is DOVI, is_hdr10_src iff the source is HDR10 and
\* is_sdr_target iff the target is SDR, whatever the other fields hold.
C6_ColorSpacePredicates ==
    /\ (op = "is_dovi_src" /\ heap[self].source_colorspace \in ColorSpaceMembers)
          => (ret.bool <=> heap[self].source_colorspace = ColorSpace("DOVI"))
    /\ (op = "is_hdr10_src" /\ heap[self].source_colorspace \in ColorSpaceMembers)
          => (ret.bool <=> heap[self].source_colorspace = ColorSpace("HDR10"))
    /\ (op = "is_sdr_target" /\ heap[self].target_colorspace \in ColorSpaceMembers)
          => (ret.bool <=> heap[self].target_colorspace = ColorSpace("SDR"))

\* C6 witness: is_sdr_target answered False for an SDR source with an HLG
\* target.
C6_Witness ==
    /\ op = "is_sdr_target"
    /\ heap[self].source_colorspace = ColorSpace("SDR")
    /\ heap[self].target_colorspace = ColorSpace("HLG")
    /\ ret.kind = "bool"
    /\ ~ret.bool

EnumsValid(b) == \A f \in EnumFields : b[f] \in EnumOf[f] \cup {PyNone}

\* C7 (as claimed): every enum-valued field of every bundle is None or a
\* member of its enumeration, and a constructor call that supplies a value
\* outside the enumeration is rejected.
C7_EnumFieldsAreMembers ==
    /\ \A i \in 1..Len(heap) : EnumsValid(heap[i])
    /\ (op = "PlaceboTonemapOpts"
        /\ \E f \in EnumFields \cap DOMAIN args :
              args[f] \notin EnumOf[f] \cup {PyNone})
          => ret.kind = "TypeError"

\* C7 (amended): enum-valued fields are not validated.  A constructor call
\* whose keywords all name fields is accepted whatever the values, and each
\* enum-valued field then holds the supplied value as it is, or its default
\* (HDR10, SDR, None); with_static_peak_detect copies these fields.  So the
\* enum-valued fields of a bundle are members (or None) whenever the values
\* supplied for them were.
C7_EnumFieldsPassThrough ==
    /\ (op = "PlaceboTonemapOpts" /\ DOMAIN args \subseteq Fields) =>
          /\ ret.kind = "ref"
          /\ \A f \in EnumFields :
                heap[ret.ref][f] =
                    IF f \in DOMAIN args THEN args[f] ELSE DocumentedDefaults[f]
          /\ (\A f \in EnumFields \cap DOMAIN args :
                 args[f] \in EnumOf[f] \cup {PyNone})
                => EnumsValid(heap[ret.ref])
    /\ Derived =>
          /\ \A f \in EnumFields : heap[ret.ref][f] = heap[self][f]
          /\ EnumsValid(heap[self]) => EnumsValid(heap[ret.ref])

\* C7 witness: the constructor accepted source_colorspace = 7.
C7_Witness ==
    /\ Constructed
    /\ "source_colorspace" \in DOMAIN args
    /\ args.source_colorspace = PyInt(7)
    /\ heap[ret.ref].source_colorspace = PyInt(7)
    /\ ~EnumsValid(heap[ret.ref])

\* The inconsistent configurations.
Less(a, b) == a.n * b.d < b.n * a.d
BlackAbovePeak(b) ==
    IsNumber(b.dst_min) /\ IsNumber(b.dst_max) /\ Less(b.dst_max, b.dst_min)
DoviWithoutDoviSource(b) ==
    b.use_dovi = PyBool(TRUE) /\ b.source_colorspace # ColorSpace("DOVI")
SameCurve(f, s) ==
    \E k \in DOMAIN PlaceboTonemapFunction :
        f = TonemapFunction(k) /\ s = TonemapFunctionName(k)
CurvesDisagree(b) ==
    /\ b.tone_map_function \in TonemapFunctionMembers
    /\ b.tone_map_function_s \in TonemapFunctionNameMembers
    /\ ~SameCurve(b.tone_map_function, b.tone_map_function_s)

\* C8: inconsistent configurations are accepted and passed through: the
\* constructor stores what it was given without error, and vsplacebo_dict
\* emits dst_max and dst_min unchanged when dst_min > dst_max, use_dovi and
\* src_csp unchanged when use_dovi is set on a non-DOVI source, and both
\* tone_mapping_function and tone_mapping_function_s when the two curves
\* disagree.
C8_InconsistentPassThrough ==
    /\ (op = "PlaceboTonemapOpts" /\ DOMAIN args \subseteq Fields) =>
          /\ ret.kind = "ref"
          /\ \A f \in DOMAIN args : heap[ret.ref][f] = args[f]
    /\ (Dumped /\ BlackAbovePeak(heap[self])) =>
          /\ Has(ret.dict, "dst_max") /\ Has(ret.dict, "dst_min")
          /\ Get(ret.dict, "dst_max") = heap[self].dst_max
          /\ Get(ret.dict, "dst_min") = heap[self].dst_min
    /\ (Dumped /\ DoviWithoutDoviSource(heap[self])) =>
          /\ Has(ret.dict, "use_dovi") /\ Has(ret.dict, "src_csp")
          /\ Get(ret.dict, "use_dovi") = PyBool(TRUE)
          /\ Get(ret.dict, "src_csp") = heap[self].source_colorspace
    /\ (Dumped /\ CurvesDisagree(heap[self])) =>
          /\ Has(ret.dict, "tone_mapping_function")
          /\ Has(ret.dict, "tone_mapping_function_s")
          /\ Get(ret.dict, "tone_mapping_function") = heap[self].tone_map_function
          /\ Get(ret.dict, "tone_mapping_function_s")
                = heap[self].tone_map_function_s

\* C8 witness: a bundle with tone_map_function = Auto and
\* tone_map_function_s = "hable" was constructed (with the default black
\* point and peak, which agree) and dumped with both keys.
C8_Witness ==
    /\ Dumped
    /\ heap[self].tone_map_function = TonemapFunction("Auto")
    /\ heap[self].tone_map_function_s = TonemapFunctionName("Hable")
    /\ CurvesDisagree(heap[self])
    /\ Get(ret.dict, "tone_mapping_function") = TonemapFunction("Auto")
    /\ Get(ret.dict, "tone_mapping_function_s") = TonemapFunctionName("Hable")

\* C9: the keys of the mapping appear in the order of the fixed key list,
\* each at most once.
C9_KeysInDocumentedOrder ==
    Dumped =>
        /\ Keys(ret.dict) \subseteq DocumentedKeys
        /\ \A i, j \in 1..Len(ret.dict) :
              i < j => Position(ret.dict[i][1]) < Position(ret.dict[j][1])

\* C9 witness: a dump with scene_threshold_low and contrast_recovery set
\* (declared in the other order) and the keys between them left out.
C9_Witness ==
    /\ Dumped
    /\ Len(ret.dict) = 7
    /\ ret.dict[6][1] = "scene_threshold_low"
    /\ ret.dict[7][1] = "contrast_recovery"

IsZeroOrFalse(v) == v.t \in {"bool", "int", "float"} \cup IntEnumTypes /\ v.n = 0

\* C10: only None is dropped, never 0 or False: the mapping of the static
\* variant of any bundle holds smoothing_period, scene_threshold_low and
\* scene_threshold_high with value 0, and every documented field that is 0
\* or False (peak_detect = False as dynamic_peak_detection: False) is
\* emitted with that value.
C10_ZeroAndFalseAreKept ==
    /\ \A i \in 1..Len(heap) :
          LET m == vsplacebo_dict(with_static_peak_detect(heap[i]))
          IN  \A k \in StaticFields : Has(m, k) /\ Get(m, k) = Zero
    /\ Dumped =>
          \A f \in DOMAIN DocumentedKey :
              IsZeroOrFalse(heap[self][f]) =>
                  /\ Has(ret.dict, DocumentedKey[f])
                  /\ Get(ret.dict, DocumentedKey[f]) = heap[self][f]

\* C10 witness: the static variant of a bundle with peak_detect = False was
\* dumped, with the three zeros and dynamic_peak_detection: False.
C10_Witness ==
    /\ Dumped
    /\ self > 1
    /\ heap[self].peak_detect = PyBool(FALSE)
    /\ \A k \in StaticFields : Has(ret.dict, k) /\ Get(ret.dict, k) = Zero
    /\ Get(ret.dict, "dynamic_peak_detection") = PyBool(FALSE)

====
